---- MODULE Spec2Model ----
(***************************************************************************)
(* Vacancy ingestion and local storage of hhanalyse:                       *)
(*   src/src/models.py          the record validator (pydantic models)     *)
(*   src/html_to_markdown.py    the HTML -> Markdown enricher              *)
(*   src/src/storage.py         VacancyStorage, the SQLite store           *)
(*   src/src/fetch_vacancies.py VacancyFetcher, the fetch orchestrator     *)
(*                                                                         *)
(* The specifications share the variables:                                 *)
(*   SpecStore  calls VacancyStorage.save_vacancy directly, call by call;  *)
(*   SpecEnrich calls convert_html_to_markdown with any method, and        *)
(*              save_vacancy over a converter that may raise;              *)
(*   Spec       is one VacancyFetcher.run() over a database that earlier   *)
(*              save_vacancy calls have filled; FairSpec adds that every   *)
(*              step of run() is taken in the end;                         *)
(*   SpecMain   is main(): run() inside the fetcher's async context, in an *)
(*              environment that can fail; FairMain adds fairness;         *)
(*   SpecTxn    is save_vacancy statement by statement, interruptible;     *)
(*   SpecValid  calls the validator directly.                              *)
(***************************************************************************)
EXTENDS Integers, Sequences, FiniteSets, TLC

(***************************************************************************)
(* Python Optional[T] / SQL NULL: None is the empty tuple, a present value *)
(* x is the one-element tuple <<x>>.                                       *)
(***************************************************************************)
None == <<>>

Some(x) == <<x>>

Get(o) == o[1]

\* dict.get-like access to a key that the JSON object may not have
Opt(d, f) == IF f \in DOMAIN d THEN Some(d[f]) ELSE None

(***************************************************************************)
(* Bounds of the model.                                                    *)
(***************************************************************************)
\* longest candidate id list read from the CSV file
MaxLen == 2

\* number of direct save_vacancy calls in SpecStore
MaxSaves == 3

\* number of 429 answers the remote gives in one run
Max429 == 2

\* number of save_vacancy calls in SpecEnrich
MaxEnrich == 2

\* the candidate vacancy ids and the versions of a record the remote serves
Ids == {"1", "2"}

Versions == {"v1", "v2", "v3"}

(***************************************************************************)
(* HTML text is a sequence of tokens: tags, the blank " " and words.       *)
(***************************************************************************)
Html1 == <<"<p>", " ", "<strong>", "Python", "</strong>", " ", " ", "<highlighttext>", "ML", "</highlighttext>", "</p>", " ">>

RECURSIVE CollapseBlanks(_)
\* re.sub(r'\s+', ' ', html_text)
CollapseBlanks(s) ==
    IF Len(s) < 2 THEN s
    ELSE IF s[1] = " " /\ s[2] = " " THEN CollapseBlanks(Tail(s))
         ELSE <<s[1]>> \o CollapseBlanks(Tail(s))

RECURSIVE Strip(_)
\* str.strip(): blanks and newlines off both ends
Strip(s) ==
    IF s = <<>> THEN s
    ELSE IF s[1] \in {" ", "\n"} THEN Strip(Tail(s))
         ELSE IF s[Len(s)] \in {" ", "\n"} THEN Strip(SubSeq(s, 1, Len(s) - 1))
              ELSE s

clean_html(html_text) ==
    IF html_text = <<>> THEN <<>>
    ELSE LET stripped == Strip(CollapseBlanks(html_text))
         IN  [i \in 1..Len(stripped) |->
                 IF stripped[i] \in {"<highlighttext>", "</highlighttext>"}
                 THEN "**" ELSE stripped[i]]

RECURSIVE RenderTags(_)
\* the converter proper: strong/b become **, a paragraph ends in a blank line
RenderTags(s) ==
    IF s = <<>> THEN <<>>
    ELSE LET t == Head(s)
             out == IF t \in {"<strong>", "</strong>", "<b>", "</b>"} THEN <<"**">>
                    ELSE IF t = "<p>" THEN <<>>
                    ELSE IF t = "</p>" THEN <<"\n", "\n">>
                    ELSE <<t>>
         IN  out \o RenderTags(Tail(s))

RECURSIVE CollapseNewlines(_)
\* re.sub(r'\n{3,}', '\n\n', markdown_text)
CollapseNewlines(s) ==
    IF Len(s) < 3 THEN s
    ELSE IF s[1] = "\n" /\ s[2] = "\n" /\ s[3] = "\n" THEN CollapseNewlines(Tail(s))
         ELSE <<s[1]>> \o CollapseNewlines(Tail(s))

RECURSIVE DropBlanksBeforeNewline(_)
\* re.sub(r' +\n', '\n', markdown_text)
DropBlanksBeforeNewline(s) ==
    IF Len(s) < 2 THEN s
    ELSE LET rest == DropBlanksBeforeNewline(Tail(s))
         IN  IF s[1] = " " /\ rest[1] = "\n" THEN rest ELSE <<s[1]>> \o rest

\* the converter run on the cleaned text, then the post-processing and strip()
Render(html_text) ==
    Strip(DropBlanksBeforeNewline(CollapseNewlines(RenderTags(clean_html(html_text)))))

\* A call of the enricher returns a text or raises. Which libraries the module
\* could import is libs (html2text, markdownify: installed or None); fails says
\* that the converter library raises on this text.
Returned(text) == [raised |-> FALSE, text |-> text]

Raised == [raised |-> TRUE, text |-> <<>>]

Methods == {"auto", "html2text", "markdownify", "simple", "pandoc"}

Libs == [html2text : BOOLEAN, markdownify : BOOLEAN]

AllLibs == [html2text |-> TRUE, markdownify |-> TRUE]

html_to_markdown_html2text(html_text, libs, fails) ==
    IF html_text = <<>> \/ ~libs.html2text THEN Returned(html_text)
    ELSE IF fails THEN Raised ELSE Returned(Render(html_text))

html_to_markdown_markdownify(html_text, libs, fails) ==
    IF html_text = <<>> \/ ~libs.markdownify THEN Returned(html_text)
    ELSE IF fails THEN Raised ELSE Returned(Render(html_text))

html_to_markdown_simple(html_text, fails) ==
    IF html_text = <<>> THEN Returned(<<>>)
    ELSE IF fails THEN Raised ELSE Returned(Render(html_text))

\* convert_html_to_markdown(html_text, method): "auto" takes the first library
\* in place; a method it does not know raises ValueError
convert_html_to_markdown(html_text, method, libs, fails) ==
    IF html_text = <<>> THEN Returned(<<>>)
    ELSE IF method = "auto"
         THEN IF libs.html2text THEN html_to_markdown_html2text(html_text, libs, fails)
              ELSE IF libs.markdownify THEN html_to_markdown_markdownify(html_text, libs, fails)
              ELSE html_to_markdown_simple(html_text, fails)
    ELSE IF method = "html2text" THEN html_to_markdown_html2text(html_text, libs, fails)
    ELSE IF method = "markdownify" THEN html_to_markdown_markdownify(html_text, libs, fails)
    ELSE IF method = "simple" THEN html_to_markdown_simple(html_text, fails)
    ELSE Raised

(***************************************************************************)
(* Raw payloads of the remote API (decoded JSON objects).                  *)
(***************************************************************************)
EmployerOf(id, ver) ==
    IF ver = "v2" THEN [id |-> "e1", name |-> "Acme Ltd", url |-> "https://hh.ru/employer/e1"]
    ELSE IF id = "1" THEN [id |-> "e1", name |-> "Acme"]
         ELSE [id |-> "e2", name |-> "Beta"]

\* v1: a salary, a description and one skill; v2: no salary and no description,
\* another name and experience, two other skills, employer e1 under a new name;
\* v3: v1 with the same skill name listed twice
Payload(id, ver) ==
    LET base == [id |-> id,
                 name |-> IF ver = "v2" THEN "ML Engineer" ELSE "Data Scientist",
                 area |-> [id |-> "1", name |-> "Moscow"],
                 type |-> [id |-> "open", name |-> "Open"],
                 experience |-> IF ver = "v2" THEN [id |-> "noExperience", name |-> "No experience"]
                                ELSE [id |-> "between1And3", name |-> "1-3 years"],
                 schedule |-> [id |-> "fullDay", name |-> "Full day"],
                 employment |-> [id |-> "full", name |-> "Full"],
                 employer |-> EmployerOf(id, ver),
                 published_at |-> 0,
                 created_at |-> 0]
    IN  IF ver = "v2"
        THEN base @@ [key_skills |-> <<[name |-> "Go"], [name |-> "Rust"]>>]
        ELSE base @@ [salary |-> [from |-> 100000, currency |-> "RUR"],
                      description |-> Html1,
                      key_skills |-> IF ver = "v3"
                                     THEN <<[name |-> "Python"], [name |-> "Python"]>>
                                     ELSE <<[name |-> "Python"]>>]

\* a payload without one of its keys
Without(d, f) == [k \in DOMAIN d \ {f} |-> d[k]]

(***************************************************************************)
(* models.py: the record validator.                                        *)
(***************************************************************************)
\* the fields of Vacancy without a default
RequiredFields ==
    {"id", "name", "area", "type", "experience", "schedule", "employment",
     "employer", "published_at", "created_at"}

\* the required fields that are sub-models, each with a required id and name
SubModels == {"area", "type", "experience", "schedule", "employment", "employer"}

\* a validator that looks at the top-level fields only
IsValidPresenceOnly(api_data) == RequiredFields \subseteq DOMAIN api_data

\* Vacancy(**api_data) does not raise a ValidationError
IsValid(api_data) ==
    /\ RequiredFields \subseteq DOMAIN api_data
    /\ \A f \in SubModels : {"id", "name"} \subseteq DOMAIN api_data[f]

\* the validated record: optional fields default to None, key_skills to []
Vacancy(api_data) ==
    [id |-> api_data.id,
     name |-> api_data.name,
     area |-> api_data.area,
     salary |-> Opt(api_data, "salary"),
     type |-> api_data.type,
     address |-> Opt(api_data, "address"),
     work_format |-> Opt(api_data, "work_format"),
     experience |-> api_data.experience,
     schedule |-> api_data.schedule,
     employment |-> api_data.employment,
     description |-> Opt(api_data, "description"),
     key_skills |-> IF "key_skills" \in DOMAIN api_data THEN api_data.key_skills ELSE <<>>,
     employer |-> api_data.employer,
     published_at |-> api_data.published_at,
     created_at |-> api_data.created_at,
     fetched_at |-> None]

(***************************************************************************)
(* storage.py: the three tables are sequences of rows in rowid order, so   *)
(* that a duplicate row is a state the model can express. The surrogate    *)
(* AUTOINCREMENT key of vacancy_skills, which nothing reads, is left out.  *)
(***************************************************************************)
EmptyDb == [employers |-> <<>>, vacancies |-> <<>>, vacancy_skills |-> <<>>]

\* a plain INSERT into a table that declares no key: the old row stays
InsertNoKey(table, row) == Append(table, row)

\* INSERT OR IGNORE: the row the table holds under that id wins
InsertOrIgnore(table, row) ==
    IF \E i \in 1..Len(table) : table[i].id = row.id THEN table ELSE Append(table, row)

\* DELETE FROM the table, then INSERT: the table holds the new row only
TruncateAndInsert(table, row) == <<row>>

\* SQLite's INSERT into a table whose PRIMARY KEY is id, conflict clause REPLACE:
\* the rows with the new row's id are deleted, the new row gets the next rowid
InsertOrReplace(table, row) ==
    SelectSeq(table, LAMBDA r : r.id # row.id) \o <<row>>

\* the column values save_employer binds
EmployerRow(employer) ==
    [id |-> employer.id,
     name |-> employer.name,
     url |-> Opt(employer, "url")]

\* the employer is not written
SkipEmployer(d, employer) == d

\* save_employer: runs in a connection of its own and commits on leaving it
save_employer(d, employer) ==
    [d EXCEPT !.employers = InsertOrReplace(@, EmployerRow(employer))]

\* the column values save_vacancy binds; now is datetime.now(). The markdown
\* is that of a conversion that returned: whichever converter "auto" takes
\* renders the text alike
VacancyRow(vacancy, raw_json, now) ==
    [id |-> vacancy.id,
     name |-> vacancy.name,
     description |-> vacancy.description,
     description_markdown |->
         IF vacancy.description # None /\ Get(vacancy.description) # <<>>
         THEN Some(convert_html_to_markdown(Get(vacancy.description), "auto", AllLibs, FALSE).text)
         ELSE None,
     area_id |-> vacancy.area.id,
     salary_from |-> IF vacancy.salary # None THEN Opt(Get(vacancy.salary), "from") ELSE None,
     salary_to |-> IF vacancy.salary # None THEN Opt(Get(vacancy.salary), "to") ELSE None,
     experience_id |-> vacancy.experience.id,
     employer_id |-> vacancy.employer.id,
     published_at |-> vacancy.published_at,
     fetched_at |-> IF vacancy.fetched_at # None THEN Get(vacancy.fetched_at) ELSE now,
     raw_json |-> raw_json]

\* no DELETE before the inserts: the new skills are merged into the old
KeepSkills(table, vacancy_id) == table

\* DELETE FROM vacancy_skills WHERE vacancy_id = ?
DeleteSkills(table, vacancy_id) ==
    SelectSeq(table, LAMBDA r : r.vacancy_id # vacancy_id)

RECURSIVE InsertSkills(_, _, _)
\* the loop of plain INSERTs; UNIQUE(vacancy_id, skill_name) makes an INSERT of
\* a pair the table holds raise sqlite3.IntegrityError
InsertSkills(table, vacancy_id, key_skills) ==
    IF key_skills = <<>> THEN [raised |-> FALSE, table |-> table]
    ELSE LET row == [vacancy_id |-> vacancy_id, skill_name |-> Head(key_skills).name]
         IN  IF \E i \in 1..Len(table) : table[i] = row
             THEN [raised |-> TRUE, table |-> table]
             ELSE InsertSkills(Append(table, row), vacancy_id, Tail(key_skills))

\* save_vacancy without the rollback: what was written before the INSERT that
\* raised stays in the database
save_vacancy_autocommit(d, vacancy, raw_json, now, libs, fails) ==
    LET d1 == save_employer(d, vacancy.employer)
        rows == InsertOrReplace(d1.vacancies, VacancyRow(vacancy, raw_json, now))
        ins == InsertSkills(DeleteSkills(d1.vacancy_skills, vacancy.id),
                            vacancy.id, vacancy.key_skills)
    IN  [raised |-> ins.raised, conversion_raised |-> FALSE,
         db |-> [d1 EXCEPT !.vacancies = rows, !.vacancy_skills = ins.table]]

\* save_vacancy: the employer is committed first; the description, when there
\* is one, is converted (an exception of the converter leaves the try block
\* through `raise`); the vacancy row, the delete and the skill inserts are one
\* transaction, rolled back when an INSERT raises. The result is the database,
\* whether the call raised and whether it was the conversion that raised.
save_vacancy(d, vacancy, raw_json, now, libs, fails) ==
    LET d1 == save_employer(d, vacancy.employer)
        description_md ==
            IF vacancy.description # None /\ Get(vacancy.description) # <<>>
            THEN convert_html_to_markdown(Get(vacancy.description), "auto", libs, fails)
            ELSE Returned(<<>>)
        rows == InsertOrReplace(d1.vacancies, VacancyRow(vacancy, raw_json, now))
        ins == InsertSkills(DeleteSkills(d1.vacancy_skills, vacancy.id),
                            vacancy.id, vacancy.key_skills)
    IN  IF description_md.raised
        THEN [raised |-> TRUE, conversion_raised |-> TRUE, db |-> d1]
        ELSE IF ins.raised
             THEN [raised |-> TRUE, conversion_raised |-> FALSE, db |-> d1]
             ELSE [raised |-> FALSE, conversion_raised |-> FALSE,
                   db |-> [d1 EXCEPT !.vacancies = rows, !.vacancy_skills = ins.table]]

\* SELECT id FROM vacancies LIMIT 1
FirstProcessedId(d) ==
    IF d.vacancies = <<>> THEN <<>> ELSE <<d.vacancies[1].id>>

\* SELECT id FROM vacancies
get_processed_vacancy_ids(d) == [i \in 1..Len(d.vacancies) |-> d.vacancies[i].id]

\* the elements of a sequence, as a set
Range(s) == {s[i] : i \in 1..Len(s)}

(***************************************************************************)
(* State.                                                                  *)
(*   db                the SQLite database file                            *)
(*   clock             datetime.now(), one tick per reading                *)
(*   calls             the save_vacancy calls made so far                  *)
(*   pc                where run() stands                                  *)
(*   csv, args         the id list of the CSV file; the arguments of run() *)
(*   vacancy_ids       run()'s local list of ids                           *)
(*   i                 the loop index of run() (1-based)                   *)
(*   successful, failed  run()'s counters                                  *)
(*   requests          the HTTP GETs issued: id, list position, status     *)
(*   api_data          what fetch_vacancy returned last                    *)
(*   failed_vacancies  the directory of failed-record files, by id         *)
(*   delays            inter-request sleeps awaited                        *)
(*   outcomes          how each processed id ended                         *)
(*   db0               the database when run() was entered                 *)
(*   libs              the converter libraries html_to_markdown imported   *)
(*   converted         the last direct call of convert_html_to_markdown    *)
(*   client            the fetcher's httpx.AsyncClient: "open" or "closed" *)
(*   conn              the save_vacancy call under way, statement by       *)
(*                     statement, with the database as its connection sees *)
(*                     it; None when no call is under way                  *)
(*   validation        the last direct call of the validator Vacancy(...)  *)
(***************************************************************************)
VARIABLES db, clock, calls, pc, csv, args, vacancy_ids, i, successful, failed,
          requests, api_data, failed_vacancies, delays, outcomes, db0, libs,
          converted, client, conn, validation

vars == <<db, clock, calls, pc, csv, args, vacancy_ids, i, successful, failed,
          requests, api_data, failed_vacancies, delays, outcomes, db0, libs,
          converted, client, conn, validation>>

runVars == <<pc, csv, args, vacancy_ids, i, successful, failed, requests,
             api_data, failed_vacancies, delays, outcomes, db0, libs, converted, client, conn, validation>>

NoArgs == [resume |-> TRUE, max_vacancies |-> None, start_index |-> None, end_index |-> None]

\* one save_vacancy call, as the log keeps it
CallRecord(vacancy, raw_json, now, before, res) ==
    [vacancy |-> vacancy, raw_json |-> raw_json, now |-> now,
     raised |-> res.raised, conversion_raised |-> res.conversion_raised,
     before |-> before, after |-> res.db]

(***************************************************************************)
(* SpecStore: VacancyStorage used directly.                                *)
(***************************************************************************)
InitStore ==
    /\ db = EmptyDb
    /\ clock = 1
    /\ calls = <<>>
    /\ pc = "storage"
    /\ csv = <<>>
    /\ args = NoArgs
    /\ vacancy_ids = <<>>
    /\ i = 0
    /\ successful = 0
    /\ failed = 0
    /\ requests = <<>>
    /\ api_data = None
    /\ failed_vacancies = [id \in Ids |-> None]
    /\ delays = 0
    /\ outcomes = <<>>
    /\ db0 = EmptyDb
    /\ libs = AllLibs
    /\ converted = None
    /\ client = "open"
    /\ conn = None
    /\ validation = None

\* storage.save_vacancy(vacancy, raw_json) for a validated record: either as
\* the fetcher calls it (fetched_at set, the payload as raw_json) or with the
\* defaults (fetched_at None, raw_json None)
CallSaveVacancy ==
    /\ pc = "storage"
    /\ Len(calls) < MaxSaves
    /\ \E id \in Ids, ver \in Versions, stamped \in BOOLEAN :
          LET payload == Payload(id, ver)
              vacancy == [Vacancy(payload) EXCEPT !.fetched_at = IF stamped THEN Some(0) ELSE None]
              raw_json == IF stamped THEN Some(payload) ELSE None
              res == save_vacancy(db, vacancy, raw_json, clock, libs, FALSE)
          IN  /\ db' = res.db
              /\ calls' = Append(calls, CallRecord(vacancy, raw_json, clock, db, res))
              /\ clock' = clock + 1
    /\ UNCHANGED runVars

NextStore == CallSaveVacancy

SpecStore == InitStore /\ [][NextStore]_vars

(***************************************************************************)
(* SpecEnrich: the enricher called directly, with any method, and          *)
(* save_vacancy over an enricher whose converter library may raise on the  *)
(* description it is given.                                                *)
(***************************************************************************)
\* the texts handed to the enricher: the empty (or absent) text and a description
HtmlTexts == {<<>>, Html1}

InitEnrich ==
    /\ db = EmptyDb
    /\ clock = 1
    /\ calls = <<>>
    /\ pc = "enrich"
    /\ csv = <<>>
    /\ args = NoArgs
    /\ vacancy_ids = <<>>
    /\ i = 0
    /\ successful = 0
    /\ failed = 0
    /\ requests = <<>>
    /\ api_data = None
    /\ failed_vacancies = [id \in Ids |-> None]
    /\ delays = 0
    /\ outcomes = <<>>
    /\ db0 = EmptyDb
    /\ libs \in Libs
    /\ converted = None
    /\ client = "open"
    /\ conn = None
    /\ validation = None

\* convert_html_to_markdown(html_text, method) called directly, as
\* test_conversion does with a method of its choice
CallConvert ==
    /\ pc = "enrich"
    /\ \E html_text \in HtmlTexts, method \in Methods, fails \in BOOLEAN :
          converted' = Some([html_text |-> html_text, method |-> method, fails |-> fails,
                             result |-> convert_html_to_markdown(html_text, method, libs, fails)])
    /\ UNCHANGED <<db, clock, calls, pc, csv, args, vacancy_ids, i, successful, failed,
                   requests, api_data, failed_vacancies, delays, outcomes, db0, libs,
                   client, conn, validation>>

\* storage.save_vacancy(vacancy, raw_json) as the fetcher calls it, the
\* converter raising or not on the description
CallSaveVacancyEnrich ==
    /\ pc = "enrich"
    /\ Len(calls) < MaxEnrich
    /\ \E id \in Ids, ver \in Versions, fails \in BOOLEAN :
          LET payload == Payload(id, ver)
              vacancy == [Vacancy(payload) EXCEPT !.fetched_at = Some(clock)]
              res == save_vacancy(db, vacancy, Some(payload), clock, libs, fails)
          IN  /\ db' = res.db
              /\ calls' = Append(calls, CallRecord(vacancy, Some(payload), clock, db, res))
              /\ clock' = clock + 1
    /\ UNCHANGED runVars

NextEnrich ==
    \/ CallConvert
    \/ CallSaveVacancyEnrich

SpecEnrich == InitEnrich /\ [][NextEnrich]_vars

(***************************************************************************)
(* fetch_vacancies.py: the pure parts of run().                            *)
(***************************************************************************)
\* Python's `x or default` for an Optional[int]: None and 0 are both falsy
PyOr(x, default) == IF x = None \/ Get(x) = 0 THEN default ELSE Get(x)

\* Python's s[a:b] for any integers a and b (a negative index counts from the
\* end, an index past an end is clamped); positions are 0-based, b exclusive
PySlice(s, a, b) ==
    LET n == Len(s)
        lo == IF a < 0 THEN (IF a + n < 0 THEN 0 ELSE a + n) ELSE (IF a > n THEN n ELSE a)
        hi == IF b < 0 THEN (IF b + n < 0 THEN 0 ELSE b + n) ELSE (IF b > n THEN n ELSE b)
    IN  SubSeq(s, lo + 1, hi)

\* no check at all
NoRangeError(start_idx, end_idx, n) == FALSE

\* the end check off by one: an end equal to the length is rejected
RangeErrorOffByOne(start_idx, end_idx, n) ==
    \/ start_idx < 0 \/ start_idx >= n
    \/ end_idx < start_idx \/ end_idx >= n

\* the two checks of run() that raise ValueError, n = len(vacancy_ids)
RangeError(start_idx, end_idx, n) ==
    \/ start_idx < 0 \/ start_idx >= n
    \/ end_idx < start_idx \/ end_idx > n

\* the stored ids are not looked at
NoFilter(d, ids) == ids

\* the filter turned round: the ids of the list that the store holds
KeepStored(d, ids) ==
    LET processed_ids == Range(get_processed_vacancy_ids(d))
    IN  SelectSeq(ids, LAMBDA vid : vid \in processed_ids)

\* the ids of the list that the store does not hold, in list order
filter_new_vacancies(d, ids) ==
    LET processed_ids == Range(get_processed_vacancy_ids(d))
    IN  SelectSeq(ids, LAMBDA vid : vid \notin processed_ids)

(***************************************************************************)
(* The remote API. It answers a GET for an id with the record of that id   *)
(* in one of its versions, with a record that lacks the experience object, *)
(* with an empty object, or with an error status; a timeout is the status  *)
(* "timeout".                                                              *)
(***************************************************************************)
Bodies(id) ==
    {Payload(id, ver) : ver \in Versions}
        \cup {Without(Payload(id, "v1"), "experience"), <<>>}

\* the JSON body the API sends with an error status
ErrorBody(status) == [errors |-> <<[type |-> status]>>]

Responses(id) ==
    {[status |-> "200", json |-> body] : body \in Bodies(id)}
        \cup {[status |-> st, json |-> ErrorBody(st)] : st \in {"404", "429", "500"}}
        \cup {[status |-> "timeout", json |-> <<>>]}

\* the 429 answers of the run so far
Rejected429 == Len(SelectSeq(requests, LAMBDA r : r.status = "429"))

\* the body of every answer is returned, whatever the status
FetchResultAnyStatus(response) == Some(response.json)

\* what fetch_vacancy returns for an answer other than 429
FetchResult(response) ==
    IF response.status = "200" THEN Some(response.json) ELSE None

\* the ValidationError text: the required fields the payload lacks
ValidationError(data) ==
    (RequiredFields \ DOMAIN data)
        \cup {f \in SubModels \cap DOMAIN data : ~({"id", "name"} \subseteq DOMAIN data[f])}

\* the file without the payload
FailedRecordNoData(vacancy_id, data, error, now) ==
    [vacancy_id |-> vacancy_id, error |-> error, timestamp |-> now, data |-> <<>>]

\* the file save_failed_vacancy writes
FailedRecord(vacancy_id, data, error, now) ==
    [vacancy_id |-> vacancy_id, error |-> error, timestamp |-> now, data |-> data]

(***************************************************************************)
(* Spec: one run() of a VacancyFetcher.                                    *)
(***************************************************************************)
\* a database that earlier runs have written
StoreWith(d, id, ver) ==
    save_vacancy(d, [Vacancy(Payload(id, ver)) EXCEPT !.fetched_at = Some(0)],
                 Some(Payload(id, ver)), 0, AllLibs, FALSE).db

InitStores == {EmptyDb, StoreWith(EmptyDb, "1", "v1")}

\* the id lists a CSV file can hold: any ids, repeated or not
IdLists == UNION {[1..n -> Ids] : n \in 0..MaxLen}

ArgSets ==
    [resume : BOOLEAN,
     max_vacancies : {None, Some(0), Some(1)},
     start_index : {None} \cup {Some(k) : k \in (-1)..MaxLen},
     end_index : {None} \cup {Some(k) : k \in (-1)..(MaxLen + 1)}]

Init ==
    /\ db \in InitStores
    /\ db0 = db
    /\ clock = 1
    /\ calls = <<>>
    /\ pc = "load"
    /\ csv \in IdLists
    /\ args \in ArgSets
    /\ vacancy_ids = <<>>
    /\ i = 0
    /\ successful = 0
    /\ failed = 0
    /\ requests = <<>>
    /\ api_data = None
    /\ failed_vacancies = [id \in Ids |-> None]
    /\ delays = 0
    /\ outcomes = <<>>
    /\ libs = AllLibs
    /\ converted = None
    /\ client = "open"
    /\ conn = None
    /\ validation = None

\* vacancy_ids = self.load_vacancy_ids()
load_vacancy_ids ==
    /\ pc = "load"
    /\ vacancy_ids' = csv
    /\ pc' = "range"
    /\ UNCHANGED <<db, clock, calls, csv, args, i, successful, failed, requests,
                   api_data, failed_vacancies, delays, outcomes, db0, libs, converted, client, conn, validation>>

\* the range selection: skipped when neither index is given, raising
\* ValueError on an invalid range, else slicing the list
SelectRange ==
    /\ pc = "range"
    /\ LET start_idx == PyOr(args.start_index, 0)
           end_idx == PyOr(args.end_index, Len(vacancy_ids))
       IN  IF args.start_index = None /\ args.end_index = None
           THEN pc' = "resume" /\ UNCHANGED vacancy_ids
           ELSE IF RangeError(start_idx, end_idx, Len(vacancy_ids))
                THEN pc' = "raised" /\ UNCHANGED vacancy_ids
                ELSE pc' = "resume" /\ vacancy_ids' = PySlice(vacancy_ids, start_idx, end_idx)
    /\ UNCHANGED <<db, clock, calls, csv, args, i, successful, failed, requests,
                   api_data, failed_vacancies, delays, outcomes, db0, libs, converted, client, conn, validation>>

\* the limit applied before the resume filter
LimitThenResumeFilter ==
    /\ pc = "resume"
    /\ LET limited == IF args.max_vacancies # None /\ Get(args.max_vacancies) # 0
                      THEN PySlice(vacancy_ids, 0, Get(args.max_vacancies))
                      ELSE vacancy_ids
       IN  vacancy_ids' = IF args.resume THEN filter_new_vacancies(db, limited) ELSE limited
    /\ pc' = "limit"
    /\ UNCHANGED <<db, clock, calls, csv, args, i, successful, failed, requests,
                   api_data, failed_vacancies, delays, outcomes, db0, libs, converted, client, conn, validation>>

\* if resume: vacancy_ids = self.filter_new_vacancies(vacancy_ids)
ResumeFilter ==
    /\ pc = "resume"
    /\ vacancy_ids' = IF args.resume THEN filter_new_vacancies(db, vacancy_ids) ELSE vacancy_ids
    /\ pc' = "limit"
    /\ UNCHANGED <<db, clock, calls, csv, args, i, successful, failed, requests,
                   api_data, failed_vacancies, delays, outcomes, db0, libs, converted, client, conn, validation>>

\* the max_vacancies cut (a limit of 0 is falsy and cuts nothing), the early
\* return on an empty list, the counters set to zero
LimitAndEnter ==
    /\ pc = "limit"
    /\ LET limited == IF args.max_vacancies # None /\ Get(args.max_vacancies) # 0
                      THEN PySlice(vacancy_ids, 0, Get(args.max_vacancies))
                      ELSE vacancy_ids
       IN  /\ vacancy_ids' = limited
           /\ IF limited = <<>>
              THEN pc' = "returned" /\ i' = i
              ELSE pc' = "fetch" /\ i' = 1
    /\ successful' = 0
    /\ failed' = 0
    /\ UNCHANGED <<db, clock, calls, csv, args, requests, api_data,
                   failed_vacancies, delays, outcomes, db0, libs, converted, client, conn, validation>>

\* a 429 handled like any other error status: the id has failed and run()
\* moves on to the next id
RateLimitedMovesOn ==
    /\ pc = "fetch"
    /\ Rejected429 < Max429
    /\ requests' = Append(requests, [id |-> vacancy_ids[i], pos |-> i, status |-> "429"])
    /\ outcomes' = Append(outcomes, [id |-> vacancy_ids[i], status |-> "429",
                                     outcome |-> "failed"])
    /\ failed' = failed + 1
    /\ pc' = IF i < Len(vacancy_ids) THEN "sleep" ELSE "done"
    /\ UNCHANGED <<db, clock, calls, csv, args, vacancy_ids, i, successful,
                   api_data, failed_vacancies, delays, db0, libs, converted, client, conn, validation>>

\* fetch_vacancy answered 429: the request is logged, the cooldown
\* asyncio.sleep(5) is awaited and fetch_vacancy calls itself for the same id
RateLimited ==
    /\ pc = "fetch"
    /\ Rejected429 < Max429
    /\ requests' = Append(requests, [id |-> vacancy_ids[i], pos |-> i, status |-> "429"])
    /\ UNCHANGED <<db, clock, calls, pc, csv, args, vacancy_ids, i, successful, failed,
                   api_data, failed_vacancies, delays, outcomes, db0, libs, converted, client, conn, validation>>

\* process_vacancy without the outer except: a save_vacancy that raised is
\* not noticed and the id is reported as processed
ProcessResultIgnoresRaise(vacancy_id, data, status, now) ==
    LET same == [db |-> db, failed_vacancies |-> failed_vacancies, calls |-> calls,
                 ticks |-> 0, success |-> FALSE, outcome |-> "failed"]
    IN  IF data = None \/ DOMAIN Get(data) = {}
        THEN [same EXCEPT !.outcome = IF status = "404" THEN "not_found" ELSE "failed"]
        ELSE IF ~IsValid(Get(data))
             THEN [same EXCEPT
                      !.failed_vacancies[vacancy_id] =
                          Some(FailedRecord(vacancy_id, Get(data), ValidationError(Get(data)), now)),
                      !.ticks = 1,
                      !.outcome = "rejected"]
             ELSE LET vacancy == [Vacancy(Get(data)) EXCEPT !.fetched_at = Some(now)]
                      res == save_vacancy(db, vacancy, data, now, libs, FALSE)
                  IN  [same EXCEPT
                          !.db = res.db,
                          !.calls = Append(calls, CallRecord(vacancy, data, now, db, res)),
                          !.ticks = 1,
                          !.success = TRUE,
                          !.outcome = "stored"]

\* how process_vacancy ends for what fetch_vacancy returned: the new database,
\* failed-record directory and save_vacancy log, the return value and the
\* terminal state of the id
ProcessResult(vacancy_id, data, status, now) ==
    LET same == [db |-> db, failed_vacancies |-> failed_vacancies, calls |-> calls,
                 ticks |-> 0, success |-> FALSE, outcome |-> "failed"]
    IN  IF data = None \/ DOMAIN Get(data) = {}
        THEN [same EXCEPT !.outcome = IF status = "404" THEN "not_found" ELSE "failed"]
        ELSE IF ~IsValid(Get(data))
             THEN [same EXCEPT
                      !.failed_vacancies[vacancy_id] =
                          Some(FailedRecord(vacancy_id, Get(data), ValidationError(Get(data)), now)),
                      !.ticks = 1,
                      !.outcome = "rejected"]
             ELSE LET vacancy == [Vacancy(Get(data)) EXCEPT !.fetched_at = Some(now)]
                      res == save_vacancy(db, vacancy, data, now, libs, FALSE)
                  IN  [same EXCEPT
                          !.db = res.db,
                          !.calls = Append(calls, CallRecord(vacancy, data, now, db, res)),
                          !.ticks = 1,
                          !.success = ~res.raised,
                          !.outcome = IF res.raised THEN "failed" ELSE "stored"]

\* the loop of run() stops at the first id
LoopPcReturn(k, ids) == "done"

\* no delay state between two ids: the loop is back at the fetch at once
LoopPcNoSleep(k, ids) == IF k < Len(ids) THEN "fetch" ELSE "done"

\* after the id at position k: the delay if ids are left, else the end of run()
LoopPc(k, ids) == IF k < Len(ids) THEN "sleep" ELSE "done"

\* every id counts as successful, whatever process_vacancy returned
CountedAsSuccess(success, n_successful, n_failed) ==
    [successful |-> n_successful + 1, failed |-> n_failed]

\* an id that did not succeed is not counted at all
CountedSuccessOnly(success, n_successful, n_failed) ==
    [successful |-> IF success THEN n_successful + 1 ELSE n_successful, failed |-> n_failed]

\* if success: successful += 1 else: failed += 1
Counted(success, n_successful, n_failed) ==
    IF success
    THEN [successful |-> n_successful + 1, failed |-> n_failed]
    ELSE [successful |-> n_successful, failed |-> n_failed + 1]

\* process_vacancy for the id at i and the rest of the loop body: one GET
\* answered with anything but 429, then (nothing is awaited in between)
\* validate, store or side-store, count, and go on to the delay or, after the
\* last id, to the final report "Successful: {successful}, Failed: {failed}"
\* and the return
process_vacancy ==
    /\ pc = "fetch"
    /\ \E response \in Responses(vacancy_ids[i]) :
          /\ response.status # "429"
          /\ requests' = Append(requests, [id |-> vacancy_ids[i], pos |-> i,
                                        status |-> response.status])
          /\ api_data' = FetchResult(response)
          /\ LET res == ProcessResult(vacancy_ids[i], api_data', response.status, clock)
             IN  /\ db' = res.db
                 /\ failed_vacancies' = res.failed_vacancies
                 /\ calls' = res.calls
                 /\ clock' = clock + res.ticks
                 /\ successful' = Counted(res.success, successful, failed).successful
                 /\ failed' = Counted(res.success, successful, failed).failed
                 /\ outcomes' = Append(outcomes, [id |-> vacancy_ids[i],
                                                  status |-> response.status,
                                                  outcome |-> res.outcome])
    /\ pc' = LoopPc(i, vacancy_ids)
    /\ UNCHANGED <<csv, args, vacancy_ids, i, delays, db0, libs, converted, client, conn, validation>>

\* the delay is awaited but the loop does not move on to the next id
DelayStay ==
    /\ pc = "sleep"
    /\ delays' = delays + 1
    /\ pc' = "fetch"
    /\ UNCHANGED <<db, clock, calls, csv, args, vacancy_ids, i, successful, failed,
                   requests, api_data, failed_vacancies, outcomes, db0, libs, converted, client, conn, validation>>

\* the next id at once, no asyncio.sleep
NoDelay ==
    /\ pc = "sleep"
    /\ i' = i + 1
    /\ pc' = "fetch"
    /\ UNCHANGED <<db, clock, calls, csv, args, vacancy_ids, successful, failed,
                   requests, api_data, failed_vacancies, delays, outcomes, db0, libs,
                   converted, client, conn, validation>>

\* await asyncio.sleep(self.delay), then the next id
Delay ==
    /\ pc = "sleep"
    /\ delays' = delays + 1
    /\ i' = i + 1
    /\ pc' = "fetch"
    /\ UNCHANGED <<db, clock, calls, csv, args, vacancy_ids, successful, failed,
                   requests, api_data, failed_vacancies, outcomes, db0, libs, converted, client, conn, validation>>

Next ==
    \/ load_vacancy_ids
    \/ SelectRange
    \/ ResumeFilter
    \/ LimitAndEnter
    \/ RateLimited
    \/ process_vacancy
    \/ Delay

Spec == Init /\ [][Next]_vars

\* every await of run() returns (a request is answered or times out, a sleep
\* ends), so the step run() stands at is taken in the end; that the remote
\* does not answer 429 for ever is the bound Max429 of RateLimited
FairSpec == Spec /\ WF_vars(Next)

(***************************************************************************)
(* SpecMain: main(), that is run() inside `async with VacancyFetcher(...)`, *)
(* in an environment that can fail: the CSV file may be unreadable, the    *)
(* database may refuse a query, the failed-record file may be unwritable.  *)
(***************************************************************************)
\* the exception leaves process_vacancy
NoOuterExcept == [propagates |-> TRUE, success |-> FALSE]

\* `except Exception` of process_vacancy: the error is logged, False returned
OuterExcept == [propagates |-> FALSE, success |-> FALSE]

\* run() is over: it returned or an exception left it
RunOver ==
    pc \in {"done", "returned", "raised", "load_raised", "query_raised",
            "stats_raised", "process_raised"}

\* pd.read_csv fails: load_vacancy_ids logs the error and re-raises
LoadFails ==
    /\ pc = "load"
    /\ pc' = "load_raised"
    /\ UNCHANGED <<db, clock, calls, csv, args, vacancy_ids, i, successful, failed,
                   requests, api_data, failed_vacancies, delays, outcomes, db0, libs,
                   converted, client, conn, validation>>

\* the SELECT of get_processed_vacancy_ids fails in filter_new_vacancies
ResumeQueryFails ==
    /\ pc = "resume"
    /\ args.resume
    /\ pc' = "query_raised"
    /\ UNCHANGED <<db, clock, calls, csv, args, vacancy_ids, i, successful, failed,
                   requests, api_data, failed_vacancies, delays, outcomes, db0, libs,
                   converted, client, conn, validation>>

\* a query of get_stats fails after the final report
StatsFails ==
    /\ pc = "done"
    /\ client = "open"
    /\ pc' = "stats_raised"
    /\ UNCHANGED <<db, clock, calls, csv, args, vacancy_ids, i, successful, failed,
                   requests, api_data, failed_vacancies, delays, outcomes, db0, libs,
                   converted, client, conn, validation>>

\* process_vacancy for a payload that fails validation when the failed-record
\* file cannot be written: save_failed_vacancy raises inside the handler of
\* the inner try, and the outer try catches it
FailedRecordWriteFails ==
    /\ pc = "fetch"
    /\ \E response \in Responses(vacancy_ids[i]) :
          /\ response.status = "200"
          /\ DOMAIN response.json # {}
          /\ ~IsValid(response.json)
          /\ requests' = Append(requests, [id |-> vacancy_ids[i], pos |-> i,
                                        status |-> response.status])
          /\ api_data' = FetchResult(response)
    /\ LET caught == OuterExcept
       IN  /\ successful' = Counted(caught.success, successful, failed).successful
           /\ failed' = Counted(caught.success, successful, failed).failed
           /\ outcomes' = Append(outcomes, [id |-> vacancy_ids[i], status |-> "200",
                                            outcome |-> "failed"])
           /\ pc' = IF caught.propagates THEN "process_raised" ELSE LoopPc(i, vacancy_ids)
    /\ UNCHANGED <<db, clock, calls, csv, args, vacancy_ids, i, failed_vacancies,
                   delays, db0, libs, converted, client, conn, validation>>

\* the client is closed by a call placed after `await fetcher.run(...)`: it
\* is reached only when run() returned
CloseAfterRun ==
    /\ pc \in {"done", "returned"}
    /\ client = "open"
    /\ client' = "closed"
    /\ UNCHANGED <<db, clock, calls, pc, csv, args, vacancy_ids, i, successful, failed,
                   requests, api_data, failed_vacancies, delays, outcomes, db0, libs,
                   converted, conn, validation>>

\* __aexit__: await self.client.aclose(), on leaving the `async with` block
\* of main() after run() returned or raised
aexit ==
    /\ RunOver
    /\ client = "open"
    /\ client' = "closed"
    /\ UNCHANGED <<db, clock, calls, pc, csv, args, vacancy_ids, i, successful, failed,
                   requests, api_data, failed_vacancies, delays, outcomes, db0, libs,
                   converted, conn, validation>>

NextMain ==
    \/ load_vacancy_ids
    \/ SelectRange
    \/ ResumeFilter
    \/ LimitAndEnter
    \/ RateLimited
    \/ process_vacancy
    \/ Delay
    \/ LoadFails
    \/ ResumeQueryFails
    \/ StatsFails
    \/ FailedRecordWriteFails
    \/ aexit

SpecMain == Init /\ [][NextMain]_vars

\* every step main() can take is taken in the end: no await blocks forever
FairMain == SpecMain /\ WF_vars(NextMain)

(***************************************************************************)
(* SpecTxn: save_vacancy statement by statement. db is the database file   *)
(* (what a new connection, or the next run, reads); conn.view is the       *)
(* database as the connection of the call under way sees it. The process   *)
(* may be interrupted between any two statements (KeyboardInterrupt, kill).*)
(***************************************************************************)
MaxTxn == 2

\* every statement is written to the file as it is executed
Autocommit(committed, view) == view

\* the `with sqlite3.connect(...)` block is left by an exception, or the
\* process dies with the transaction open: the file keeps what was committed
Rollback(committed, view) == committed

\* the log entry of a call that ended: at is the statement it stood at when
\* it was interrupted (k the skill the loop stood at), None for a call that
\* returned or raised by itself
TxnRecord(c, raised, at, after) ==
    [vacancy |-> c.vacancy, raw_json |-> c.raw_json, now |-> c.now,
     raised |-> raised, conversion_raised |-> FALSE,
     before |-> c.before, after |-> after, interrupted |-> at]

InitTxn ==
    /\ db = EmptyDb
    /\ clock = 1
    /\ calls = <<>>
    /\ pc = "storage"
    /\ csv = <<>>
    /\ args = NoArgs
    /\ vacancy_ids = <<>>
    /\ i = 0
    /\ successful = 0
    /\ failed = 0
    /\ requests = <<>>
    /\ api_data = None
    /\ failed_vacancies = [id \in Ids |-> None]
    /\ delays = 0
    /\ outcomes = <<>>
    /\ db0 = EmptyDb
    /\ libs = AllLibs
    /\ converted = None
    /\ client = "open"
    /\ conn = None
    /\ validation = None

\* save_vacancy(vacancy, raw_json) is entered
BeginSave ==
    /\ conn = None
    /\ Len(calls) < MaxTxn
    /\ \E id \in Ids, ver \in Versions :
          LET payload == Payload(id, ver)
          IN  conn' = Some([vacancy |-> [Vacancy(payload) EXCEPT !.fetched_at = Some(0)],
                            raw_json |-> Some(payload), now |-> clock,
                            before |-> db, view |-> db, step |-> "employer", k |-> 1])
    /\ clock' = clock + 1
    /\ UNCHANGED <<db, calls>>
    /\ UNCHANGED <<pc, csv, args, vacancy_ids, i, successful, failed, requests,
                   api_data, failed_vacancies, delays, outcomes, db0, libs, converted,
                   client, validation>>

\* self.save_employer(vacancy.employer): committed when its with-block is left
SaveEmployer ==
    /\ conn # None
    /\ Get(conn).step = "employer"
    /\ db' = save_employer(db, Get(conn).vacancy.employer)
    /\ conn' = Some([Get(conn) EXCEPT !.view = db', !.step = "vacancy"])
    /\ UNCHANGED <<clock, calls>>
    /\ UNCHANGED <<pc, csv, args, vacancy_ids, i, successful, failed, requests,
                   api_data, failed_vacancies, delays, outcomes, db0, libs, converted,
                   client, validation>>

\* INSERT OR REPLACE INTO vacancies, which opens the transaction
InsertVacancy ==
    /\ conn # None
    /\ Get(conn).step = "vacancy"
    /\ LET c == Get(conn)
       IN  conn' = Some([c EXCEPT
                 !.view.vacancies = InsertOrReplace(@, VacancyRow(c.vacancy, c.raw_json, c.now)),
                 !.step = "delete"])
    /\ UNCHANGED <<db, clock, calls>>
    /\ UNCHANGED <<pc, csv, args, vacancy_ids, i, successful, failed, requests,
                   api_data, failed_vacancies, delays, outcomes, db0, libs, converted,
                   client, validation>>

\* DELETE FROM vacancy_skills WHERE vacancy_id = ?
DeleteOldSkills ==
    /\ conn # None
    /\ Get(conn).step = "delete"
    /\ LET c == Get(conn)
       IN  conn' = Some([c EXCEPT
                 !.view.vacancy_skills = DeleteSkills(@, c.vacancy.id),
                 !.step = "skills"])
    /\ UNCHANGED <<db, clock, calls>>
    /\ UNCHANGED <<pc, csv, args, vacancy_ids, i, successful, failed, requests,
                   api_data, failed_vacancies, delays, outcomes, db0, libs, converted,
                   client, validation>>

\* one INSERT INTO vacancy_skills of the loop; a pair the table holds raises
\* IntegrityError, the with-block rolls back and save_vacancy re-raises
InsertSkill ==
    /\ conn # None
    /\ Get(conn).step = "skills"
    /\ Get(conn).k <= Len(Get(conn).vacancy.key_skills)
    /\ LET c == Get(conn)
           ins == InsertSkills(c.view.vacancy_skills, c.vacancy.id,
                               <<c.vacancy.key_skills[c.k]>>)
       IN  IF ins.raised
           THEN /\ db' = Rollback(db, c.view)
                /\ conn' = None
                /\ calls' = Append(calls, TxnRecord(c, TRUE, None, db'))
           ELSE /\ conn' = Some([c EXCEPT !.view.vacancy_skills = ins.table, !.k = @ + 1])
                /\ UNCHANGED <<db, calls>>
    /\ UNCHANGED clock
    /\ UNCHANGED <<pc, csv, args, vacancy_ids, i, successful, failed, requests,
                   api_data, failed_vacancies, delays, outcomes, db0, libs, converted,
                   client, validation>>

\* the with-block is left normally: commit
Commit ==
    /\ conn # None
    /\ Get(conn).step = "skills"
    /\ Get(conn).k > Len(Get(conn).vacancy.key_skills)
    /\ db' = Get(conn).view
    /\ conn' = None
    /\ calls' = Append(calls, TxnRecord(Get(conn), FALSE, None, db'))
    /\ UNCHANGED clock
    /\ UNCHANGED <<pc, csv, args, vacancy_ids, i, successful, failed, requests,
                   api_data, failed_vacancies, delays, outcomes, db0, libs, converted,
                   client, validation>>

\* the process is interrupted while save_vacancy is under way
Interrupt ==
    /\ conn # None
    /\ db' = Rollback(db, Get(conn).view)
    /\ conn' = None
    /\ calls' = Append(calls, TxnRecord(Get(conn), TRUE,
                                       Some([step |-> Get(conn).step, k |-> Get(conn).k]), db'))
    /\ UNCHANGED clock
    /\ UNCHANGED <<pc, csv, args, vacancy_ids, i, successful, failed, requests,
                   api_data, failed_vacancies, delays, outcomes, db0, libs, converted,
                   client, validation>>

NextTxn ==
    \/ BeginSave
    \/ SaveEmployer
    \/ InsertVacancy
    \/ DeleteOldSkills
    \/ InsertSkill
    \/ Commit
    \/ Interrupt

SpecTxn == InitTxn /\ [][NextTxn]_vars

(***************************************************************************)
(* SpecValid: the validator Vacancy(...) called directly, on a             *)
(* complete payload from which some fields were taken away and in which    *)
(* one required sub-object may lack its id or its name.                    *)
(***************************************************************************)
MaxMissing == 2

\* a payload with every required field and the optional salary, address,
\* work_format, description and key_skills
FullPayload ==
    Payload("1", "v1") @@ [address |-> [city |-> "Moscow"],
                           work_format |-> <<[id |-> "REMOTE", name |-> "Remote"]>>]

\* the payload with sub-object f lacking key (f = "" leaves it as it is)
Malformed(d, f, key) ==
    IF f \in DOMAIN d THEN [d EXCEPT ![f] = Without(@, key)] ELSE d

\* the payloads the validator is given
RawPayloads ==
    {Malformed([k \in DOMAIN FullPayload \ missing |-> FullPayload[k]], f, key) :
        <<missing, f, key>> \in
            {m \in SUBSET DOMAIN FullPayload : Cardinality(m) <= MaxMissing}
                \X (SubModels \cup {""}) \X {"id", "name"}}

InitValid ==
    /\ db = EmptyDb
    /\ clock = 1
    /\ calls = <<>>
    /\ pc = "validate"
    /\ csv = <<>>
    /\ args = NoArgs
    /\ vacancy_ids = <<>>
    /\ i = 0
    /\ successful = 0
    /\ failed = 0
    /\ requests = <<>>
    /\ api_data \in {Some(data) : data \in RawPayloads}
    /\ failed_vacancies = [id \in Ids |-> None]
    /\ delays = 0
    /\ outcomes = <<>>
    /\ db0 = EmptyDb
    /\ libs = AllLibs
    /\ converted = None
    /\ client = "open"
    /\ conn = None
    /\ validation = None

\* Vacancy(...) on the payload: the record, or a ValidationError
CallVacancy ==
    /\ pc = "validate"
    /\ validation = None
    /\ LET data == Get(api_data)
       IN  validation' = Some([api_data |-> data,
                               raised |-> ~IsValid(data),
                               vacancy |-> IF IsValid(data) THEN Some(Vacancy(data)) ELSE None])
    /\ UNCHANGED <<db, clock, calls, pc, csv, args, vacancy_ids, i, successful, failed,
                   requests, api_data, failed_vacancies, delays, outcomes, db0, libs,
                   converted, client, conn>>

NextValid == CallVacancy

SpecValid == InitValid /\ [][NextValid]_vars

(***************************************************************************)
(* Claims about save_vacancy (SpecStore).                                  *)
(***************************************************************************)
\* no skill name is listed twice in the record's key_skills
DistinctSkills(vacancy) ==
    \A j, k \in 1..Len(vacancy.key_skills) :
        vacancy.key_skills[j].name = vacancy.key_skills[k].name => j = k

\* the store after a repeated call holds one vacancies row of the id, one
\* employers row of its employer, one vacancy_skills row per skill name, and
\* as many rows per table as after the call before it
OneRowEach(c, prev) ==
    LET v == c.vacancy
        d == c.after
    IN  /\ Len(SelectSeq(d.vacancies, LAMBDA r : r.id = v.id)) = 1
        /\ Len(SelectSeq(d.employers, LAMBDA r : r.id = v.employer.id)) = 1
        /\ \A j \in 1..Len(v.key_skills) :
              Len(SelectSeq(d.vacancy_skills,
                    LAMBDA r : r.vacancy_id = v.id /\ r.skill_name = v.key_skills[j].name)) = 1
        /\ Len(d.vacancies) = Len(prev.after.vacancies)
        /\ Len(d.employers) = Len(prev.after.employers)
        /\ Len(d.vacancy_skills) = Len(prev.after.vacancy_skills)

\* calls k-1 and k pass the same record with the same content
Repeated(k) ==
    /\ calls[k].vacancy = calls[k - 1].vacancy
    /\ calls[k].raw_json = calls[k - 1].raw_json

\* C1 as stated: for ANY valid vacancy, after save_vacancy is called again with
\* identical content the store holds exactly one row of it per table and the
\* row counts of the first call. (Fails for a record that lists a skill twice.)
C1_AnyVacancyOneRow ==
    \A k \in 2..Len(calls) : Repeated(k) => OneRowEach(calls[k], calls[k - 1])

\* C1 amended: for any valid vacancy whose key_skills names are pairwise
\* distinct, after save_vacancy is called again with identical content the
\* store holds exactly one vacancies row of its id, one employers row of its
\* employer, one vacancy_skills row per skill name, and the row counts are
\* those after the first call.
C1_IdempotentSave ==
    \A k \in 2..Len(calls) :
        Repeated(k) /\ DistinctSkills(calls[k].vacancy)
            => ~calls[k].raised /\ OneRowEach(calls[k], calls[k - 1])

\* a record with a skill was saved twice in a row, into a store with other rows
C1_Witness ==
    /\ Len(calls) = 3
    /\ Repeated(3)
    /\ DistinctSkills(calls[3].vacancy)
    /\ calls[3].vacancy.key_skills # <<>>
    /\ calls[1].vacancy.id # calls[3].vacancy.id

\* the vacancy_skills rows of one vacancy, in rowid order
SkillRows(d, id) == SelectSeq(d.vacancy_skills, LAMBDA r : r.vacancy_id = id)

\* the rows the skill loop writes for a record
SkillRowsOf(vacancy) ==
    [j \in 1..Len(vacancy.key_skills) |->
        [vacancy_id |-> vacancy.id, skill_name |-> vacancy.key_skills[j].name]]

\* the calls for an id that returned without raising
OkCalls(id) == {k \in 1..Len(calls) : calls[k].vacancy.id = id /\ ~calls[k].raised}

Last(ks) == CHOOSE k \in ks : \A j \in ks : j <= k

\* C2: the vacancy_skills rows of an id are exactly the skill names of the most
\* recent save_vacancy call for that id that succeeded, one row per name and
\* none of an earlier version (delete-then-insert, not merge); a call leaves
\* the skill rows of every other vacancy id as they were.
C2_SkillsReplaced ==
    /\ \A id \in Ids :
          SkillRows(db, id) =
              IF OkCalls(id) = {} THEN <<>> ELSE SkillRowsOf(calls[Last(OkCalls(id))].vacancy)
    /\ \A k \in 1..Len(calls) :
          \A id \in Ids \ {calls[k].vacancy.id} :
              SkillRows(calls[k].after, id) = SkillRows(calls[k].before, id)

\* an id saved with one skill, another id saved, the first id saved again with
\* two other skills
C2_Witness ==
    /\ Len(calls) = 3
    /\ \A k \in 1..3 : ~calls[k].raised /\ calls[k].vacancy.key_skills # <<>>
    /\ calls[1].vacancy.id = calls[3].vacancy.id
    /\ calls[2].vacancy.id # calls[3].vacancy.id
    /\ Range(SkillRowsOf(calls[1].vacancy)) \cap Range(SkillRowsOf(calls[3].vacancy)) = {}
    /\ SkillRows(db, calls[3].vacancy.id) = SkillRowsOf(calls[3].vacancy)

\* the vacancies rows of an id
VacancyRows(d, id) == SelectSeq(d.vacancies, LAMBDA r : r.id = id)

\* the call is for an id the store holds, with a row that differs from it
Refetch(c) ==
    /\ Len(VacancyRows(c.before, c.vacancy.id)) = 1
    /\ VacancyRows(c.before, c.vacancy.id)[1] # VacancyRow(c.vacancy, c.raw_json, c.now)

\* the store holds one row of the id, with every column as the call's record
\* gives it: the optional fields the record lacks are NULL
AllColumnsNew(c) ==
    LET rows == VacancyRows(c.after, c.vacancy.id)
    IN  /\ rows = <<VacancyRow(c.vacancy, c.raw_json, c.now)>>
        /\ rows[1].name = c.vacancy.name
        /\ rows[1].raw_json = c.raw_json
        /\ c.vacancy.salary = None => rows[1].salary_from = None /\ rows[1].salary_to = None
        /\ c.vacancy.description = None
              => rows[1].description = None /\ rows[1].description_markdown = None

\* C3 as stated: WHENEVER save_vacancy is called for a stored id with different
\* content, every column of the row afterwards is the new record's and the id
\* has one row. (Fails when the new record lists a skill twice: the call
\* raises and the previous row stays.)
C3_AlwaysReplaced ==
    \A k \in 1..Len(calls) : Refetch(calls[k]) => AllColumnsNew(calls[k])

\* C3 amended: when save_vacancy is called for a stored id with different
\* content and the new record lists no skill name twice, the call succeeds,
\* the id keeps exactly one vacancies row and every column of it is the value
\* derived from the new record (NULL where the record has none); when the new
\* record lists a skill name twice the call raises and the vacancies table is
\* what it was.
C3_ReplacedUnlessRaised ==
    \A k \in 1..Len(calls) :
        Refetch(calls[k]) =>
            IF DistinctSkills(calls[k].vacancy)
            THEN ~calls[k].raised /\ AllColumnsNew(calls[k])
            ELSE calls[k].raised /\ calls[k].after.vacancies = calls[k].before.vacancies

\* a stored row with a salary and a description was replaced by a record that
\* has neither
C3_Witness ==
    \E k \in 1..Len(calls) :
        /\ Refetch(calls[k])
        /\ ~calls[k].raised
        /\ VacancyRows(calls[k].before, calls[k].vacancy.id)[1].salary_from # None
        /\ VacancyRows(calls[k].before, calls[k].vacancy.id)[1].description_markdown # None
        /\ calls[k].vacancy.salary = None
        /\ VacancyRows(db, calls[k].vacancy.id)[1].salary_from = None

(***************************************************************************)
(* Claims about run() (Spec).                                              *)
(***************************************************************************)
\* the ids the vacancies table held when run() was entered
StoredAtStart == {db0.vacancies[k].id : k \in 1..Len(db0.vacancies)}

\* the ids process_vacancy was called for, in order: the GETs less the 429s
FetchedIds ==
    LET gets == SelectSeq(requests, LAMBDA r : r.status # "429")
    IN  [k \in 1..Len(gets) |-> gets[k].id]

\* run() has returned
Finished == pc \in {"done", "returned"}

\* nothing has been requested, stored or side-stored in this run
NoWork ==
    /\ requests = <<>>
    /\ calls = <<>>
    /\ db = db0
    /\ \A id \in Ids : failed_vacancies[id] = None
    /\ outcomes = <<>>

RangeGiven == args.start_index # None \/ args.end_index # None

\* the range that the checks of run() are written to refuse, for the indices
\* run() works with
RefusedRange ==
    /\ RangeGiven
    /\ \/ PyOr(args.start_index, 0) < 0
       \/ PyOr(args.start_index, 0) > Len(csv) - 1
       \/ PyOr(args.end_index, Len(csv)) < PyOr(args.start_index, 0)
       \/ PyOr(args.end_index, Len(csv)) > Len(csv)

\* the part of the CSV list that run() selects for the indices it works with
SelectedSlice ==
    IF RangeGiven /\ ~RefusedRange
    THEN SubSeq(csv, PyOr(args.start_index, 0) + 1, PyOr(args.end_index, Len(csv)))
    ELSE csv

\* the selected ids that the store did not hold at the start, in list order
NewInSlice == SelectSeq(SelectedSlice, LAMBDA id : id \notin StoredAtStart)

\* s is the beginning of t
IsPrefix(s, t) == Len(s) <= Len(t) /\ s = SubSeq(t, 1, Len(s))

\* C4 as stated: a resume-enabled run requests no id that the store held at
\* its start, and the ids it fetches are EXACTLY the selected candidate ids
\* that are not in the store, in list order. (Fails when max_vacancies cuts
\* the list.)
C4_FetchesEveryNewId ==
    args.resume =>
        /\ \A k \in 1..Len(requests) : requests[k].id \notin StoredAtStart
        /\ Finished => FetchedIds = NewInSlice

\* C4 amended: a resume-enabled run requests no id that the store held at its
\* start, and the ids it fetches are the selected candidate ids that are not
\* in the store, in list order: all of them when no max_vacancies is given
\* (or it is 0), else the first max_vacancies of them.
C4_ResumeSkipsStored ==
    args.resume =>
        /\ \A k \in 1..Len(requests) : requests[k].id \notin StoredAtStart
        /\ IsPrefix(FetchedIds, NewInSlice)
        /\ Finished =>
              FetchedIds =
                  IF args.max_vacancies # None /\ Get(args.max_vacancies) # 0
                        /\ Get(args.max_vacancies) < Len(NewInSlice)
                  THEN SubSeq(NewInSlice, 1, Get(args.max_vacancies))
                  ELSE NewInSlice

\* a resume run over a list that starts with a stored id has fetched exactly
\* the other id
C4_Witness ==
    /\ pc = "done"
    /\ args.resume
    /\ StoredAtStart = {"1"}
    /\ csv = <<"1", "2">>
    /\ FetchedIds = <<"2">>
    /\ SelectedSlice = csv

\* the indices as the caller gave them, an index not given being the list end
GivenStart == IF args.start_index = None THEN 0 ELSE Get(args.start_index)

GivenEnd == IF args.end_index = None THEN Len(csv) ELSE Get(args.end_index)

\* C5 as stated: run() rejects the range whenever start is outside [0, N-1],
\* or end < start, or end > N, or end = 0. (The code reads end = 0 as "no end
\* given": run(start_index=1, end_index=0) selects [1:N] and fetches.)
C5_RejectsInvalidRange ==
    /\ RangeGiven
    /\ pc \notin {"load", "range"}
    /\ \/ GivenStart < 0 \/ GivenStart > Len(csv) - 1
       \/ GivenEnd < GivenStart \/ GivenEnd > Len(csv)
       \/ args.end_index = Some(0)
    => pc = "raised"

\* C6: run() raises for an invalid range before any work: once the range
\* step is over an invalid range has raised, and in the raised state no HTTP
\* request has been issued, no vacancies, employers or vacancy_skills row has
\* been written and no failed-record file exists.
C6_RaisesBeforeAnyWork ==
    /\ pc = "raised" => NoWork /\ RefusedRange
    /\ RefusedRange /\ pc \notin {"load", "range"} => pc = "raised"

\* run() has raised for an end index past the list, the store holding rows of
\* an earlier run
C6_Witness ==
    /\ pc = "raised"
    /\ Len(csv) = 2
    /\ args.start_index = Some(0)
    /\ args.end_index = Some(3)
    /\ db # EmptyDb
    /\ ~args.resume

\* run(start_index=0, end_index=N) for a list of N >= 1 ids
FullRange ==
    /\ Len(csv) >= 1
    /\ args.start_index = Some(0)
    /\ args.end_index = Some(Len(csv))

\* C7: run(start_index=0, end_index=N) for N >= 1 does not raise and selects
\* all N ids, the list that a run without a range works with; with resume
\* disabled (and max_vacancies not given, as in that call) every one of the N
\* ids is fetched, in list order.
C7_FullRangeSelectsAll ==
    FullRange =>
        /\ pc # "raised"
        /\ pc = "resume" => vacancy_ids = csv
        /\ pc \notin {"load", "range", "resume"} /\ ~args.resume /\ args.max_vacancies = None
              => vacancy_ids = csv /\ IsPrefix(FetchedIds, csv)
        /\ Finished /\ ~args.resume /\ args.max_vacancies = None => FetchedIds = csv

\* run(0, 2) over two ids, one of them stored, resume disabled: both fetched
C7_Witness ==
    /\ pc = "done"
    /\ FullRange
    /\ Len(csv) = 2
    /\ ~args.resume
    /\ args.max_vacancies = None
    /\ StoredAtStart # {}
    /\ FetchedIds = csv

\* a step of run() that processes the id at i to a terminal outcome
ProcessStep == pc = "fetch" /\ Len(outcomes') = Len(outcomes) + 1

\* the loop goes on after the id at i: to the delay before the next id, or to
\* the end of run() when it was the last
LoopGoesOn ==
    /\ vacancy_ids' = vacancy_ids
    /\ i' = i
    /\ pc' = IF i < Len(vacancy_ids) THEN "sleep" ELSE "done"

\* when run() has run through the loop, every selected id was attempted, in
\* list order; in the delay there is a next id
AllAttempted ==
    /\ pc = "done" => FetchedIds = vacancy_ids
    /\ pc = "sleep" => i < Len(vacancy_ids) /\ Len(FetchedIds) = i
    /\ pc = "fetch" => i \in 1..Len(vacancy_ids) /\ Len(FetchedIds) = i - 1

\* C8: the step that processes an id whose GET is answered 404 writes no row
\* to vacancies, employers or vacancy_skills, and the loop goes on: every id
\* after it in the selected list is attempted in the same run.
C8_NotFoundIsNonFatal ==
    /\ [][ProcessStep /\ requests'[Len(requests')].status = "404"
             => db' = db /\ calls' = calls /\ LoopGoesOn]_vars
    /\ []AllAttempted

\* a run over two new ids: the first was answered 404, the second was stored
C8_Witness ==
    /\ pc = "done"
    /\ db0 = EmptyDb
    /\ Len(outcomes) = 2
    /\ outcomes[1].status = "404"
    /\ outcomes[2].outcome = "stored"
    /\ outcomes[1].id # outcomes[2].id
    /\ VacancyRows(db, outcomes[1].id) = <<>>
    /\ Len(VacancyRows(db, outcomes[2].id)) = 1

\* the GET of the step is answered 200 with a non-empty payload that lacks a
\* required field
RejectStep ==
    /\ ProcessStep
    /\ requests'[Len(requests')].status = "200"
    /\ DOMAIN Get(api_data') # {}
    /\ ~(RequiredFields \subseteq DOMAIN Get(api_data'))

StoredOutcomes == {k \in 1..Len(outcomes) : outcomes[k].outcome = "stored"}

NotFoundOutcomes == {k \in 1..Len(outcomes) : outcomes[k].status = "404"}

\* a finished batch in which every id either was stored or was answered 404
StoredOrNotFoundOnly ==
    /\ pc = "done"
    /\ StoredOutcomes \cup NotFoundOutcomes = 1..Len(outcomes)

\* C10 as stated: with k valid payloads and m 404s and no other failure, the
\* store gains EXACTLY k vacancy rows and the run reports k successes and m
\* not-found. (Fails when a stored id is fetched again with resume disabled,
\* or when the list names an id twice: the store gains fewer rows.)
C10_GainsOneRowPerSuccess ==
    StoredOrNotFoundOnly =>
        /\ Len(db.vacancies) = Len(db0.vacancies) + Cardinality(StoredOutcomes)
        /\ successful = Cardinality(StoredOutcomes)
        /\ failed = Cardinality(NotFoundOutcomes)

\* C10 amended: with k valid payloads and m 404s and no other failure, the
\* store holds exactly one vacancy row for each of the k ids and gains one row
\* per distinct id among them that it did not hold before the run (exactly k
\* rows when the k ids are distinct and new); the run reports successful = k
\* and failed = m, the not-found ids being counted in the failed counter.
C10_ReportsSuccessesAndNotFound ==
    StoredOrNotFoundOnly =>
        /\ successful = Cardinality(StoredOutcomes)
        /\ failed = Cardinality(NotFoundOutcomes)
        /\ \A k \in StoredOutcomes : Len(VacancyRows(db, outcomes[k].id)) = 1
        /\ Len(db.vacancies) =
              Len(db0.vacancies)
                  + Cardinality({outcomes[k].id : k \in StoredOutcomes} \ StoredAtStart)
        /\ \A k \in NotFoundOutcomes :
              outcomes[k].id \notin StoredAtStart \cup {outcomes[j].id : j \in StoredOutcomes}
                  => VacancyRows(db, outcomes[k].id) = <<>>

\* the two-id example: "1" is stored, "2" is answered 404; one vacancy row,
\* one success and one failure reported
C10_Witness ==
    /\ pc = "done"
    /\ db0 = EmptyDb
    /\ csv = <<"1", "2">>
    /\ Len(outcomes) = 2
    /\ outcomes[1].outcome = "stored"
    /\ outcomes[2].status = "404"
    /\ Len(db.vacancies) = 1
    /\ db.vacancies[1].id = "1"
    /\ successful = 1
    /\ failed = 1

\* the requests issued for the list position p because the request before it,
\* for the same position, was answered 429
RetriesOf(p) ==
    {k \in 2..Len(requests) :
        requests[k].pos = p /\ requests[k - 1].pos = p /\ requests[k - 1].status = "429"}

\* C11 as stated: after a 429 the same id is retried ONCE: at most one more
\* request is issued for that id because of rate limiting, whatever the retry
\* is answered. (fetch_vacancy calls itself on every 429: a retry answered 429
\* is followed by a third request, and so on.)
C11_AtMostOneRetry ==
    \A p \in 1..Len(vacancy_ids) : Cardinality(RetriesOf(p)) <= 1

\* the requests of the run for an id, and those of them answered 429
RequestsFor(id) == {k \in 1..Len(requests) : requests[k].id = id}

RateLimitedFor(id) == {k \in RequestsFor(id) : requests[k].status = "429"}

\* the positions of the selected list that name the id
Occurrences(id) == {p \in 1..Len(vacancy_ids) : vacancy_ids[p] = id}

\* no id twice in the list
Distinct(ids) == \A j, k \in 1..Len(ids) : ids[j] = ids[k] => j = k

\* C12 as stated: at most one HTTP request per distinct id in a run, for every
\* candidate list and every sequence of responses. (Fails for a list that
\* names an id twice, and for an id answered 429.)
C12_OneRequestPerId ==
    \A id \in Ids : Cardinality(RequestsFor(id)) <= 1

\* C12 amended: within one run every entry of the selected list is fetched at
\* most once, not counting the requests answered 429: the requests for an id
\* are at most its occurrences in the selected list plus the 429 answers it
\* got, hence at most one per distinct id for a candidate list without a
\* repeated id as long as the remote answers no 429; a finished run has made
\* exactly that many requests.
C12_OneFetchPerListEntry ==
    /\ \A id \in Ids :
          /\ Cardinality(RequestsFor(id))
                 <= Cardinality(Occurrences(id)) + Cardinality(RateLimitedFor(id))
          /\ pc = "done" =>
                 Cardinality(RequestsFor(id))
                    = Cardinality(Occurrences(id)) + Cardinality(RateLimitedFor(id))
          /\ Distinct(csv) /\ RateLimitedFor(id) = {} => Cardinality(RequestsFor(id)) <= 1
    /\ \A p \in 1..Len(vacancy_ids) :
          Cardinality({k \in 1..Len(requests) :
                          requests[k].pos = p /\ requests[k].status # "429"}) <= 1

\* a finished resume run over a list that names a new id twice: two requests
\* for it, neither answered 429, and the second made when the id was stored
C12_Witness ==
    /\ pc = "done"
    /\ args.resume
    /\ csv = <<"2", "2">>
    /\ vacancy_ids = csv
    /\ Cardinality(RequestsFor("2")) = 2
    /\ RateLimitedFor("2") = {}
    /\ outcomes[1].outcome = "stored"

\* C13: in a run that processes n >= 1 ids the inter-request delay is awaited
\* exactly n-1 times: once after each processed id except the last, whatever
\* the outcome of the id, and never after the last id nor before the first.
C13_DelayBetweenIds ==
    /\ [](/\ pc = "fetch" => delays = i - 1 /\ Len(outcomes) = i - 1
          /\ pc = "sleep" => delays = i - 1 /\ Len(outcomes) = i /\ i < Len(vacancy_ids)
          /\ pc = "done" => delays = Len(vacancy_ids) - 1 /\ Len(outcomes) = Len(vacancy_ids)
          /\ pc \notin {"fetch", "sleep", "done"} => delays = 0)
    /\ [][delays' # delays =>
             /\ delays' = delays + 1
             /\ Len(outcomes) = i /\ i < Len(vacancy_ids)
             /\ Len(outcomes') = Len(outcomes)]_vars
    /\ [][ProcessStep /\ i < Len(vacancy_ids) => pc' = "sleep" /\ delays' = delays]_vars
    /\ [][ProcessStep /\ i = Len(vacancy_ids) => pc' = "done" /\ delays' = delays]_vars

\* a finished run of two ids, the first of which failed and the second was not
\* found: one delay
C13_Witness ==
    /\ pc = "done"
    /\ Len(vacancy_ids) = 2
    /\ outcomes[1].outcome = "failed"
    /\ outcomes[2].outcome = "not_found"
    /\ delays = 1

\* the step issues a request
RequestStep == requests' # requests

\* the step calls save_vacancy
SaveStep == calls' # calls

\* C14: the selected ids are processed strictly one at a time in list order:
\* a request for the id at position p is issued only when every id before p
\* has reached its terminal outcome (its store write included) and the delay
\* after each of them has elapsed; requests are issued one per step, for the
\* positions in list order; store writes are made one per step, each on the
\* database the write before it left behind, for the id being processed.
C14_OneAtATime ==
    /\ [][RequestStep =>
             /\ Len(requests') = Len(requests) + 1
             /\ SubSeq(requests', 1, Len(requests)) = requests
             /\ requests'[Len(requests')].pos = Len(outcomes) + 1
             /\ requests'[Len(requests')].id = vacancy_ids[Len(outcomes) + 1]
             /\ delays = Len(outcomes)
             /\ \A k \in 1..Len(outcomes) : outcomes[k].id = vacancy_ids[k]
             /\ \A k \in 1..Len(requests) :
                   requests[k].pos <= Len(outcomes) + 1]_vars
    /\ [][SaveStep =>
             /\ Len(calls') = Len(calls) + 1
             /\ SubSeq(calls', 1, Len(calls)) = calls
             /\ calls'[Len(calls')].vacancy.id = vacancy_ids[i]
             /\ calls'[Len(calls')].before = db
             /\ calls'[Len(calls')].after = db'
             /\ Len(outcomes') = Len(outcomes) + 1]_vars
    /\ [][db' # db => SaveStep]_vars

\* a finished run of two ids, both stored, the second after a 429
C14_Witness ==
    /\ pc = "done"
    /\ Len(vacancy_ids) = 2
    /\ vacancy_ids[1] # vacancy_ids[2]
    /\ Len(requests) = 3
    /\ requests[2].status = "429"
    /\ Len(calls) = 2
    /\ calls[2].before = calls[1].after
    /\ \A k \in 1..2 : outcomes[k].outcome = "stored"

\* the save_vacancy calls of the run that returned
CommittedCalls == {k \in 1..Len(calls) : ~calls[k].raised}

SaveRaisedStep ==
    /\ ProcessStep
    /\ SaveStep
    /\ calls'[Len(calls')].raised

\* C16: the step in which save_vacancy raises for an id counts the id as
\* failed, not as successful, leaves the id without a vacancies row of this
\* call, and the loop goes on: every id after it in the selected list is
\* attempted in the same run.
C16_StoreFailureIsNonFatal ==
    /\ [][SaveRaisedStep =>
             /\ failed' = failed + 1
             /\ successful' = successful
             /\ outcomes'[Len(outcomes')].outcome = "failed"
             /\ db'.vacancies = db.vacancies
             /\ LoopGoesOn]_vars
    /\ []AllAttempted

\* a run over two new ids: save_vacancy raised for the first, the second was
\* stored
C16_Witness ==
    /\ pc = "done"
    /\ db0 = EmptyDb
    /\ Len(outcomes) = 2
    /\ Len(calls) = 2
    /\ calls[1].raised
    /\ outcomes[1].outcome = "failed"
    /\ outcomes[2].outcome = "stored"
    /\ outcomes[1].id # outcomes[2].id
    /\ successful = 1
    /\ failed = 1

(***************************************************************************)
(* Claims about the enricher (SpecEnrich).                                 *)
(***************************************************************************)
\* C17 as stated: when the conversion of the description fails in a
\* save_vacancy call, the call does not raise and the vacancies row of the id
\* is written with the original HTML as description and NULL as markdown.
\* (The call raises: the conversion is inside the try block whose handler
\* logs and re-raises, and no row is written.)
C17_ConversionFailureStoresHtml ==
    \A k \in 1..Len(calls) :
        calls[k].conversion_raised =>
            /\ ~calls[k].raised
            /\ Len(VacancyRows(calls[k].after, calls[k].vacancy.id)) = 1
            /\ VacancyRows(calls[k].after, calls[k].vacancy.id)[1].description
                   = calls[k].vacancy.description
            /\ VacancyRows(calls[k].after, calls[k].vacancy.id)[1].description_markdown = None

\* C18 as stated: convert_html_to_markdown raises for no text and no method:
\* when the converter fails or the method is unusable it returns the original
\* text or the empty string, and for an empty or absent text it returns the
\* empty string. (A method it does not know raises ValueError for a non-empty
\* text, and an exception of the converter library is not caught.)
C18_NeverRaises ==
    converted # None =>
        LET c == Get(converted)
        IN  /\ ~c.result.raised
            /\ c.html_text = <<>> => c.result.text = <<>>
            /\ c.fails \/ c.method \notin {"auto", "html2text", "markdownify", "simple"}
                  => c.result.text \in {c.html_text, <<>>}

(***************************************************************************)
(* Further claims about run() (Spec).                                      *)
(***************************************************************************)
\* C19: get_processed_vacancy_ids returns exactly the ids for which a
\* save_vacancy call has committed, those of earlier runs on the same
\* database included: an id is returned if and only if the database held a
\* vacancies row of it when the run began or a save_vacancy call of the run
\* for that id returned without raising; each id is returned once.
C19_ProcessedIdsAreCommitted ==
    LET ids == get_processed_vacancy_ids(db)
    IN  /\ Range(ids) = StoredAtStart \cup {calls[k].vacancy.id : k \in CommittedCalls}
        /\ Distinct(ids)
        /\ \A k \in 1..Len(calls) :
              calls[k].raised /\ calls[k].vacancy.id \notin Range(get_processed_vacancy_ids(calls[k].before))
                  => calls[k].vacancy.id \notin Range(get_processed_vacancy_ids(calls[k].after))

\* a store written by an earlier run holds "1"; this run has stored "2" after
\* a save_vacancy call for "2" that raised
C19_Witness ==
    /\ pc = "done"
    /\ StoredAtStart = {"1"}
    /\ Len(calls) = 2
    /\ calls[1].raised
    /\ calls[1].vacancy.id = "2"
    /\ Range(get_processed_vacancy_ids(calls[1].after)) = {"1"}
    /\ ~calls[2].raised
    /\ Range(get_processed_vacancy_ids(db)) = {"1", "2"}

\* the selected slice after the resume step
ResumeFiltered == IF args.resume THEN NewInSlice ELSE SelectedSlice

\* run() has returned without raising
Completed == Finished /\ pc # "raised"

C21_ClientClosedOnExit ==
    /\ [][RequestStep => client = "open" /\ client' = "open"]_vars
    /\ [](client = "closed" => RunOver)
    /\ [][client = "closed" => client' = "closed" /\ requests' = requests /\ pc' = pc]_vars
    /\ RunOver ~> (client = "closed")

\* run() raised ValueError for an invalid range and the client is closed
C21_Witness ==
    /\ pc = "raised"
    /\ RefusedRange
    /\ client = "closed"
    /\ requests = <<>>

(***************************************************************************)
(* Claims about save_vacancy under interruption (SpecTxn).                 *)
(***************************************************************************)
\* the calls that were interrupted
InterruptedCalls == {k \in 1..Len(calls) : calls[k].interrupted # None}

\* C22: in every state of the database file, also while a save_vacancy call
\* is under way and after a call was interrupted at any statement, each id has
\* exactly the vacancies row and the complete skill rows of the last call for
\* it that committed, and no row at all when no call for it committed; an
\* interrupted call leaves the vacancies and vacancy_skills tables as they
\* were when it was entered.
C22_InterruptLeavesValidStore ==
    /\ \A id \in Ids :
          LET ok == OkCalls(id)
          IN  /\ VacancyRows(db, id) =
                     IF ok = {} THEN <<>>
                     ELSE <<VacancyRow(calls[Last(ok)].vacancy, calls[Last(ok)].raw_json,
                                       calls[Last(ok)].now)>>
              /\ SkillRows(db, id) =
                     IF ok = {} THEN <<>> ELSE SkillRowsOf(calls[Last(ok)].vacancy)
    /\ \A k \in InterruptedCalls :
          /\ calls[k].after.vacancies = calls[k].before.vacancies
          /\ calls[k].after.vacancy_skills = calls[k].before.vacancy_skills

\* an id stored with one skill is fetched again with two other skills; the
\* call is interrupted after the new row, the delete and the first of the two
\* inserts: the file holds the first version's row and skill
C22_Witness ==
    /\ Len(calls) = 2
    /\ ~calls[1].raised
    /\ calls[2].vacancy.id = calls[1].vacancy.id
    /\ calls[2].interrupted = Some([step |-> "skills", k |-> 2])
    /\ Len(calls[2].vacancy.key_skills) = 2
    /\ Range(SkillRowsOf(calls[1].vacancy)) \cap Range(SkillRowsOf(calls[2].vacancy)) = {}
    /\ SkillRows(db, calls[1].vacancy.id) = SkillRowsOf(calls[1].vacancy)
    /\ VacancyRows(db, calls[1].vacancy.id)[1].name = calls[1].vacancy.name
    /\ calls[2].vacancy.name # calls[1].vacancy.name

\* every vacancies row names the id of an employers row, every
\* vacancy_skills row the id of a vacancies row
ForeignKeysHold(d) ==
    /\ \A r \in Range(d.vacancies) : \E e \in Range(d.employers) : e.id = r.employer_id
    /\ \A r \in Range(d.vacancy_skills) : \E v \in Range(d.vacancies) : v.id = r.vacancy_id

\* C27: the references between the tables are consistent in every reachable
\* state of the database file and, while a save_vacancy call is under way, in
\* the database as its connection sees it after each single statement: every
\* vacancies row's employer_id is the id of an employers row and every
\* vacancy_skills row's vacancy_id is the id of a vacancies row.
C27_ForeignKeysHold ==
    /\ ForeignKeysHold(db)
    /\ conn # None => ForeignKeysHold(Get(conn).view)

\* between two writes of a call: the row of a stored id was replaced by one
\* that names another employer, the skill rows of the old version are still
\* there
C27_Witness ==
    /\ conn # None
    /\ Get(conn).step = "delete"
    /\ VacancyRows(db, Get(conn).vacancy.id) # <<>>
    /\ VacancyRows(db, Get(conn).vacancy.id)[1].employer_id # Get(conn).vacancy.employer.id
    /\ VacancyRows(Get(conn).view, Get(conn).vacancy.id)[1].employer_id
           = Get(conn).vacancy.employer.id
    /\ SkillRows(Get(conn).view, Get(conn).vacancy.id) # <<>>
    /\ SkillRows(Get(conn).view, Get(conn).vacancy.id) # SkillRowsOf(Get(conn).vacancy)

\* the ids a table holds
IdsOf(table) == {table[j].id : j \in 1..Len(table)}

\* C28: no step of any sequence of save_vacancy calls (with the save_employer
\* call each of them makes), whether the call commits, raises or is
\* interrupted, removes a vacancy id or an employer id from the database file;
\* nor does a statement remove one from the database as the connection of the
\* call under way sees it.
C28_NoDeletion ==
    [][/\ IdsOf(db.vacancies) \subseteq IdsOf(db'.vacancies)
       /\ IdsOf(db.employers) \subseteq IdsOf(db'.employers)
       /\ (conn # None /\ conn' # None) =>
              /\ IdsOf(Get(conn).view.vacancies) \subseteq IdsOf(Get(conn').view.vacancies)
              /\ IdsOf(Get(conn).view.employers) \subseteq IdsOf(Get(conn').view.employers)]_vars

\* a stored id was stored again under another employer: the id is there, and
\* so is the first employer, which no vacancy refers to any more
C28_Witness ==
    /\ Len(calls) = 2
    /\ ~calls[1].raised
    /\ ~calls[2].raised
    /\ calls[2].vacancy.id = calls[1].vacancy.id
    /\ calls[2].vacancy.employer.id # calls[1].vacancy.employer.id
    /\ IdsOf(db.vacancies) = {calls[1].vacancy.id}
    /\ IdsOf(db.employers) = {calls[1].vacancy.employer.id, calls[2].vacancy.employer.id}
    /\ \A r \in Range(db.vacancies) : r.employer_id = calls[2].vacancy.employer.id

(***************************************************************************)
(* Claims about the validator (SpecValid).                                 *)
(***************************************************************************)
\* the parts C23 names as required, and those of them that are sub-objects
RequiredParts ==
    {"id", "name", "area", "experience", "schedule", "employment", "employer",
     "type", "published_at", "created_at"}

RequiredSubObjects == {"area", "experience", "schedule", "employment", "employer", "type"}

\* every required sub-object the payload has carries its id and its name
WellFormed(data) ==
    \A f \in RequiredSubObjects \cap DOMAIN data : {"id", "name"} \subseteq DOMAIN data[f]

\* C23 as stated: validation of a raw payload succeeds EXACTLY WHEN all
\* required parts are present. (Fails for a payload that has every required
\* part but whose employer, say, has no id: validation raises.)
C23_ValidIffPresent ==
    validation # None =>
        (~Get(validation).raised <=> RequiredParts \subseteq DOMAIN Get(validation).api_data)

\* C23 amended: validation succeeds exactly when all required parts are
\* present and every required sub-object that is present carries its id and
\* name; the absence of any one required part makes it fail; the absence of
\* an optional field never makes it fail and leaves that field None (for
\* key_skills: the empty list).
C23_ValidIffPresentAndWellFormed ==
    validation # None =>
        LET v == Get(validation)
            data == v.api_data
        IN  /\ ~v.raised <=> (RequiredParts \subseteq DOMAIN data /\ WellFormed(data))
            /\ RequiredParts \ DOMAIN data # {} => v.raised
            /\ ~v.raised =>
                  /\ v.vacancy # None
                  /\ \A f \in {"salary", "address", "work_format", "description"} \ DOMAIN data :
                        Get(v.vacancy)[f] = None
                  /\ \A f \in {"salary", "address", "work_format", "description"} \cap DOMAIN data :
                        Get(v.vacancy)[f] = Some(data[f])
                  /\ "key_skills" \notin DOMAIN data => Get(v.vacancy).key_skills = <<>>

\* a payload with every required part and neither salary nor address was
\* validated: the record has both as None
C23_Witness ==
    /\ validation # None
    /\ RequiredParts \subseteq DOMAIN Get(validation).api_data
    /\ DOMAIN FullPayload \ DOMAIN Get(validation).api_data = {"salary", "address"}
    /\ ~Get(validation).raised
    /\ Get(Get(validation).vacancy).salary = None
    /\ Get(Get(validation).vacancy).address = None
    /\ Get(Get(validation).vacancy).work_format # None

(***************************************************************************)
(* Claims about run() in a failing environment (FairMain).                 *)
(***************************************************************************)
\* an exception left run()
RunPropagated ==
    pc \in {"raised", "load_raised", "query_raised", "stats_raised", "process_raised"}

\* C24 as stated: the ONLY condition under which run() ends with a propagated
\* error is an invalid range argument. (Fails: an unreadable CSV file is
\* re-raised by load_vacancy_ids, and the resume query and the final
\* statistics query are not guarded.)
C24_OnlyInvalidRangePropagates ==
    RunPropagated => pc = "raised" /\ RefusedRange

\* C24 amended: run() ends with a propagated error only for an invalid range,
\* a failed load of the id list, a failed resume query or a failed final
\* statistics query, each of them outside the loop (before the first request
\* or after the last id); inside the loop no failure of a fetch, of validation,
\* of the failed-record write or of save_vacancy propagates: the step that
\* processes an id always leads to the delay before the next id or to the
\* end of the loop.
C24_PropagatesOnlyOutsideLoop ==
    /\ [](RunPropagated =>
             \/ pc = "raised" /\ RefusedRange
             \/ pc \in {"load_raised", "query_raised"} /\ requests = <<>> /\ outcomes = <<>>
             \/ pc = "stats_raised" /\ FetchedIds = vacancy_ids)
    /\ [][ProcessStep => LoopGoesOn]_vars
    /\ [][(pc \in {"fetch", "sleep"}) => (pc' \in {"fetch", "sleep", "done"})]_vars

\* a run over two new ids: the payload of the first failed validation and its
\* failed-record file could not be written, the second was stored
C24_Witness ==
    /\ pc = "done"
    /\ db0 = EmptyDb
    /\ Len(outcomes) = 2
    /\ outcomes[1] = [id |-> vacancy_ids[1], status |-> "200", outcome |-> "failed"]
    /\ failed_vacancies[vacancy_ids[1]] = None
    /\ Len(calls) = 1
    /\ outcomes[2].outcome = "stored"
    /\ failed = 1
    /\ successful = 1

(***************************************************************************)
(* Claims about what a run leaves for the next run (Spec).                 *)
(***************************************************************************)
\* the set get_processed_vacancy_ids returns
Processed(d) == Range(get_processed_vacancy_ids(d))

\* the ids a resume-enabled run with the same list, range and max_vacancies
\* would select if it started on the database as it is
NextResumeRun ==
    LET filtered == filter_new_vacancies(db, SelectedSlice)
    IN  IF args.max_vacancies # None /\ Get(args.max_vacancies) # 0
        THEN PySlice(filtered, 0, Get(args.max_vacancies))
        ELSE filtered

\* an attempt for the id ended stored in this run
StoredInRun(id) ==
    \E k \in 1..Len(outcomes) : outcomes[k].id = id /\ outcomes[k].outcome = "stored"

\* C25 as stated: an id whose attempt ended as failed, not found or rejected
\* is ABSENT from the set returned by get_processed_vacancy_ids. (Fails for an
\* id the store held before: a run without resume fetches it again, the
\* attempt fails, and the id is still in the set.)
C25_FailedIdsAbsent ==
    \A k \in 1..Len(outcomes) :
        outcomes[k].outcome # "stored" => outcomes[k].id \notin Processed(db)

\* C25 amended: an attempt that ends as failed, not found or rejected adds
\* nothing to the set returned by get_processed_vacancy_ids; when the run is
\* over, an attempted id is in that set exactly if the store held it before
\* the run or an attempt for it ended stored in the run; an attempted id that
\* is not in the set is selected by the next resume-enabled run over the same
\* list, an id that is in the set is not.
C25_FailedAttemptAddsNothing ==
    /\ [][ProcessStep /\ outcomes'[Len(outcomes')].outcome # "stored"
             => get_processed_vacancy_ids(db') = get_processed_vacancy_ids(db)]_vars
    /\ [](pc = "done" =>
             \A k \in 1..Len(outcomes) :
                 IF outcomes[k].id \in StoredAtStart \/ StoredInRun(outcomes[k].id)
                 THEN /\ outcomes[k].id \in Processed(db)
                      /\ outcomes[k].id \notin Range(NextResumeRun)
                 ELSE /\ outcomes[k].id \notin Processed(db)
                      /\ outcomes[k].id \in Range(NextResumeRun))

\* a resume-enabled run over two new ids: the first was answered 404, the
\* second was stored; the next run selects the first id alone
C25_Witness ==
    /\ pc = "done"
    /\ args.resume
    /\ db0 = EmptyDb
    /\ Len(outcomes) = 2
    /\ outcomes[1].outcome = "not_found"
    /\ outcomes[2].outcome = "stored"
    /\ outcomes[1].id # outcomes[2].id
    /\ Processed(db) = {outcomes[2].id}
    /\ NextResumeRun = <<outcomes[1].id>>

\* the terminal states of the outcomes recorded for an id
OutcomesOf(id) == {k \in 1..Len(outcomes) : outcomes[k].id = id}

\* C26 as stated: each selected ID ends in exactly one terminal state and NO
\* ID in a terminal state is attempted again within the same run. (Fails for a
\* candidate list that names an id twice: the id is attempted once per entry.)
C26_NoIdAttemptedAgain ==
    \A id \in Ids : Cardinality(OutcomesOf(id)) <= 1

\* C26 amended: each entry of the selected list ends in exactly one of stored,
\* rejected, not_found, failed, in list order, and no entry that has ended is
\* requested again (so an id the list names once is attempted once); the
\* store is written only in the step of an entry whose fetch returned 200 and
\* whose payload passed validation, and the entry ends stored exactly when
\* that write committed; a failed-record file is written only in the step of
\* an entry fetched with 200 whose non-empty payload failed validation, and
\* that entry ends rejected; an entry ends not_found exactly when its fetch
\* returned 404.
C26_EachEntryOneTerminalState ==
    /\ [](\A k \in 1..Len(outcomes) :
             /\ k <= Len(vacancy_ids)
             /\ outcomes[k].id = vacancy_ids[k]
             /\ outcomes[k].outcome \in {"stored", "rejected", "not_found", "failed"})
    /\ [](pc = "done" => Len(outcomes) = Len(vacancy_ids))
    /\ [](Distinct(vacancy_ids) => \A id \in Ids : Cardinality(OutcomesOf(id)) <= 1)
    /\ [][RequestStep => requests'[Len(requests')].pos = Len(outcomes) + 1]_vars
    /\ [][ProcessStep =>
             LET o == outcomes'[Len(outcomes')]
                 ok == o.status = "200" /\ api_data' # None /\ IsValid(Get(api_data'))
             IN  /\ SaveStep <=> ok
                 /\ db' # db => ok
                 /\ o.outcome = "stored" <=> ok /\ ~calls'[Len(calls')].raised
                 /\ o.outcome = "stored" <=> db'.vacancies # db.vacancies
                 /\ failed_vacancies' # failed_vacancies <=> o.outcome = "rejected"
                 /\ o.outcome = "rejected" <=>
                        /\ o.status = "200"
                        /\ DOMAIN Get(api_data') # {}
                        /\ ~IsValid(Get(api_data'))
                 /\ o.outcome = "not_found" <=> o.status = "404"]_vars
    /\ [][~ProcessStep => db' = db /\ failed_vacancies' = failed_vacancies
                                   /\ outcomes' = outcomes]_vars

\* a run over two ids: the first was answered 500 and ended failed, the
\* payload of the second failed validation and ended rejected
C26_Witness ==
    /\ pc = "done"
    /\ Len(outcomes) = 2
    /\ outcomes[1].id # outcomes[2].id
    /\ outcomes[1].status = "500"
    /\ outcomes[1].outcome = "failed"
    /\ outcomes[2].outcome = "rejected"
    /\ failed_vacancies[outcomes[1].id] = None
    /\ failed_vacancies[outcomes[2].id] # None
    /\ db = db0

(***************************************************************************)
(* Claims about a record that repeats a skill name (Spec).                 *)
(***************************************************************************)
\* the save_vacancy calls of the run for a record that lists a skill twice
RepeatedSkillCalls == {k \in 1..Len(calls) : ~DistinctSkills(calls[k].vacancy)}

\* C29: a save_vacancy call for a validated record that lists a skill name
\* twice raises (on the INSERT, not on the conversion); the vacancies table
\* and the vacancy_skills table are afterwards exactly what they were before
\* the call (no row of the id when it was new, the previous version's row and
\* skills when it was stored), while the employers table holds the record's
\* employer as the call wrote it; the run counts the id as failed and not as
\* successful.
C29_DuplicateSkillRollsBack ==
    /\ [](\A k \in RepeatedSkillCalls :
             /\ calls[k].raised
             /\ ~calls[k].conversion_raised
             /\ calls[k].after.vacancies = calls[k].before.vacancies
             /\ calls[k].after.vacancy_skills = calls[k].before.vacancy_skills
             /\ VacancyRows(calls[k].before, calls[k].vacancy.id) = <<>>
                    => /\ VacancyRows(calls[k].after, calls[k].vacancy.id) = <<>>
                       /\ SkillRows(calls[k].after, calls[k].vacancy.id) = <<>>
             /\ SelectSeq(calls[k].after.employers,
                          LAMBDA r : r.id = calls[k].vacancy.employer.id)
                    = <<EmployerRow(calls[k].vacancy.employer)>>)
    /\ [][SaveStep /\ Len(calls') \in RepeatedSkillCalls'
             => /\ db' = calls'[Len(calls')].after
                /\ failed' = failed + 1
                /\ successful' = successful
                /\ outcomes'[Len(outcomes')] = [id |-> calls'[Len(calls')].vacancy.id,
                                                 status |-> "200", outcome |-> "failed"]]_vars

\* a run without resume over a new id and a stored id, both answered with a
\* record that lists a skill twice: the employer of the new id is stored, its
\* vacancy and skills are not; the stored id keeps the row and the skills of
\* its previous version; both ids count as failed
C29_Witness ==
    /\ pc = "done"
    /\ db0 # EmptyDb
    /\ Len(calls) = 2
    /\ RepeatedSkillCalls = {1, 2}
    /\ VacancyRows(db0, calls[1].vacancy.id) = <<>>
    /\ VacancyRows(db, calls[1].vacancy.id) = <<>>
    /\ SkillRows(db, calls[1].vacancy.id) = <<>>
    /\ \E r \in Range(db.employers) : r.id = calls[1].vacancy.employer.id
    /\ \A r \in Range(db0.employers) : r.id # calls[1].vacancy.employer.id
    /\ VacancyRows(db0, calls[2].vacancy.id) # <<>>
    /\ VacancyRows(db, calls[2].vacancy.id) = VacancyRows(db0, calls[2].vacancy.id)
    /\ SkillRows(db, calls[2].vacancy.id) = SkillRows(db0, calls[2].vacancy.id)
    /\ failed = 2
    /\ successful = 0

(***************************************************************************)
(* Claims about termination (FairSpec).                                    *)
(***************************************************************************)
\* the step issues a request that is answered 429
RateLimitedStep == RequestStep /\ requests'[Len(requests')].status = "429"

\* C30 as stated: a run with a valid range eventually terminates AND REPORTS
\* ITS FINAL COUNTS. (Fails for a run whose batch is empty after the range,
\* the resume filter and the limit: it returns early and reports no counts.)
C30_TerminatesAndReports ==
    ~RefusedRange ~> (pc = "done")

\* C30 amended: a run with a valid range eventually terminates, provided
\* every request returns or times out and the remote does not answer 429 for
\* ever: with a non-empty batch it ends after the loop, where it reports
\* counts that add up to the batch, with an empty batch it returns before the
\* loop without a report; a request answered 429 leaves run() at the same id
\* with no outcome recorded and nothing counted, the next request is for that
\* same entry again, however many 429 answers it already got, and no later
\* id is requested before the id got another answer.
C30_TerminatesOnceNot429 ==
    /\ ~RefusedRange ~> Finished
    /\ [](pc = "done" => /\ vacancy_ids # <<>>
                         /\ successful + failed = Len(vacancy_ids)
                         /\ Len(outcomes) = Len(vacancy_ids))
    /\ [](pc = "returned" => vacancy_ids = <<>> /\ requests = <<>> /\ outcomes = <<>>)
    /\ [][RateLimitedStep =>
             /\ pc' = "fetch"
             /\ i' = i
             /\ vacancy_ids' = vacancy_ids
             /\ outcomes' = outcomes
             /\ successful' = successful /\ failed' = failed
             /\ delays' = delays]_vars
    /\ [][(RequestStep /\ requests # <<>> /\ requests[Len(requests)].status = "429")
             => requests'[Len(requests')].pos = requests[Len(requests)].pos]_vars
    /\ [](pc = "fetch" /\ Rejected429 < Max429 => ENABLED RateLimited)

\* the first id of a batch of two was answered 429 as often as the remote
\* may, then it was fetched; the second id was fetched after it; the run
\* ended and reported two ids
C30_Witness ==
    /\ pc = "done"
    /\ Len(vacancy_ids) = 2
    /\ Len(requests) = Max429 + 2
    /\ \A k \in 1..Max429 : requests[k].status = "429" /\ requests[k].pos = 1
    /\ requests[Max429 + 1].pos = 1
    /\ requests[Max429 + 2].pos = 2
    /\ successful + failed = 2

====
